---- MODULE Spec2Model ----
(***************************************************************************)
(* AnimMUF (src/animmuf.py): one run() fetches the NOAA manifest with a    *)
(* conditional request, downloads the missing images, writes a thumbnail,  *)
(* removes the images the manifest no longer names, composes the frames    *)
(* in target_dir/_workdir and has ffmpeg encode them into the published    *)
(* video.  The model follows one run() at a time through its calls; the    *)
(* files of target_dir, the cached manifest, its .etag file and the video  *)
(* file persist from one run to the next.                                  *)
(*                                                                         *)
(* Image k of 1..NumImages stands for the file 'CTIPe-MUF_<k>'.  A         *)
(* manifest is the sequence of the image names its entries carry.  The     *)
(* content of latest.png, of the frames and of the videos is not modelled, *)
(* only whether the file is there and complete.  The                       *)
(* entity tag the server sends for a manifest identifies its content, so   *)
(* the tag of manifest m is modelled by m itself.                          *)
(***************************************************************************)
EXTENDS Integers, Sequences, FiniteSets

NumImages == 2

Names == 1..NumImages


VARIABLES
  remote,     \* the manifest the server holds at SOURCE_JSON
  cache,      \* config.muf_file: [state: "none" | "ok" | "corrupt", data: manifest]
  etag,       \* muf_file.with_suffix('.etag'): <<>> no file, <<m>> the tag of m
  local,      \* target_dir: image name -> "absent" | "complete" | "partial"
  latest,     \* target_dir/latest.png exists
  workdir,    \* target_dir/_workdir: "absent" | "stale" (left by a killed run) | "own"
  frames,     \* indices i of the frames CTIPe-MUF-<i>.jpg written in _workdir
  tmp,        \* _workdir/video-<pid>.mp4: [exists, whole: completely written]
  video,      \* config.video_file: [gen: "old" (there before the first run) | "new", whole]
  pc,         \* position of the run
  force,      \* run(force)
  idx,        \* retrieve_files: position of the loop over the manifest
  exc,        \* an IOError raised inside the with block is propagating
  status,     \* how the last run ended
  resp,       \* the response of this run's manifest request
  changed,    \* what download_with_etag returned
  resumed,    \* the run before stopped on an image download and the manifest is unchanged
  missing,    \* manifest images absent from target_dir when the run started
  attempted,  \* images urlretrieve was called for in this run
  failed,     \* images whose urlretrieve raised in this run
  stuck,      \* stale images whose unlink raised in this run's cleanup
  enterSaw,   \* what Workdir.__enter__ found: "no" (not called) | "fresh" | "existing"
  rc,         \* ffmpeg: "none" not started | "missing" | "zero" | "nonzero"
  touched     \* the kinds of file this run created, wrote or removed

vars == <<remote, cache, etag, local, latest, workdir, frames, tmp, video, pc,
          force, idx, exc, status, resp, changed, resumed, missing,
          attempted, failed, stuck, enterSaw, rc, touched>>

world == <<remote, cache, etag, local, latest, workdir, frames, tmp, video>>

NoCache == [state |-> "none", data |-> <<>>]
NoTmp == [exists |-> FALSE, whole |-> FALSE]
OldVideo == [gen |-> "old", whole |-> TRUE]

\* pathlib.Path(entry['url']).name for every entry of a manifest
ManifestNames(m) == {m[i] : i \in DOMAIN m}

\* target_dir.glob('CTIPe-MUF_*'): the image files, never latest.png or _workdir
glob(loc) == {n \in Names : loc[n] # "absent"}

\* sorted(S) for a set of image names
RECURSIVE sorted(_)
sorted(S) ==
  IF S = {} THEN <<>>
  ELSE LET m == CHOOSE x \in S : \A y \in S : x <= y
       IN <<m>> \o sorted(S \ {m})

\* the manifests the server may hold: it lists each image once, in the order
\* of the capture times the names carry
Manifests == {sorted(S) : S \in SUBSET Names}

Init ==
  /\ remote = <<>>
  /\ cache = NoCache
  /\ etag = <<>>
  /\ local \in [Names -> {"absent", "complete"}]
  /\ latest = FALSE
  /\ workdir \in {"absent", "stale"}
  /\ frames = {}
  /\ tmp = NoTmp
  /\ video = OldVideo
  /\ pc = "idle"
  /\ force = FALSE
  /\ idx = 0
  /\ exc = FALSE
  /\ status = "none"
  /\ resp = "none"
  /\ changed = FALSE
  /\ resumed = FALSE
  /\ missing = {}
  /\ attempted = {}
  /\ failed = {}
  /\ stuck = {}
  /\ enterSaw = "no"
  /\ rc = "none"
  /\ touched = {}

\* run() is called; read_config succeeds and target_dir is a directory.  The
\* server holds manifest m by now; m = remote when the manifest did not change
\* since the run before.
Start(f, m) ==
  /\ pc = "idle"
  /\ pc' = "fetch"
  /\ force' = f
  /\ remote' = m
  /\ resumed' = (failed # {} /\ m = remote)
  /\ missing' = {n \in ManifestNames(m) : local[n] = "absent"}
  /\ idx' = 0
  /\ exc' = FALSE
  /\ status' = "none"
  /\ resp' = "none"
  /\ changed' = FALSE
  /\ attempted' = {}
  /\ failed' = {}
  /\ stuck' = {}
  /\ enterSaw' = "no"
  /\ rc' = "none"
  /\ touched' = {}
  /\ UNCHANGED <<cache, etag, local, latest, workdir, frames, tmp, video>>

\* a raised exception leaves run(): the process ends with status st
Finish(st) ==
  /\ pc' = "idle"
  /\ status' = st

\* the server answers 304 when the If-None-Match tag names the content it holds
NotModified(tag, m) == tag = <<m>>

\* download_with_etag's result on a success response: True is returned inside
\* the `if "ETag" in response.headers` block, False after it
ReturnsChanged(hdr) == hdr

ProceedAlways(chg, f) == TRUE

\* run(): `if not retrieve_files(...) and not force: return os.EX_OK`
Proceed(chg, f) == chg \/ f

\* download_with_etag got 304 (urlopen raises HTTPError with code 304): False
download_with_etag_304 ==
  /\ pc = "fetch"
  /\ NotModified(etag, remote)
  /\ resp' = "304"
  /\ changed' = FALSE
  /\ IF Proceed(FALSE, force)
       THEN pc' = "thumb" /\ status' = status
       ELSE Finish("EX_OK")
  /\ UNCHANGED <<world, force, idx, exc, resumed, missing, attempted,
                 failed, enterSaw, rc, touched, stuck>>

\* download_with_etag got a success response, with an ETag header or without
download_with_etag_200(hdr) ==
  /\ pc = "fetch"
  /\ ~NotModified(etag, remote)
  /\ resp' = "200"
  /\ cache' = [state |-> "ok", data |-> remote]
  /\ etag' = IF hdr THEN <<remote>> ELSE etag
  /\ touched' = touched \cup {"cache"} \cup (IF hdr THEN {"etag"} ELSE {})
  /\ changed' = ReturnsChanged(hdr)
  /\ IF ReturnsChanged(hdr)
       THEN pc' = "sync" /\ idx' = 1 /\ status' = status
       ELSE /\ idx' = idx
            /\ IF Proceed(FALSE, force)
                 THEN pc' = "thumb" /\ status' = status
                 ELSE Finish("EX_OK")
  /\ UNCHANGED <<remote, local, latest, workdir, frames, tmp, video, force,
                 exc, resumed, missing, attempted, failed, enterSaw, rc, stuck>>

\* the manifest request fails: urlopen raises (the cache is untouched), or
\* response.read() raises after open(filename, "wb") emptied the cache
download_with_etag_error(truncated) ==
  /\ pc = "fetch"
  /\ truncated => ~NotModified(etag, remote)
  /\ resp' = "error"
  /\ cache' = IF truncated THEN [state |-> "corrupt", data |-> <<>>] ELSE cache
  /\ touched' = IF truncated THEN touched \cup {"cache"} ELSE touched
  /\ Finish("Error")
  /\ UNCHANGED <<remote, etag, local, latest, workdir, frames, tmp, video,
                 force, idx, exc, changed, resumed, missing, attempted,
                 failed, enterSaw, rc, stuck>>

\* retrieve_image: the target exists (whatever it holds), nothing is fetched
retrieve_image_skip ==
  /\ pc = "sync"
  /\ idx <= Len(cache.data)
  /\ local[cache.data[idx]] # "absent"
  /\ idx' = idx + 1
  /\ UNCHANGED <<world, pc, force, exc, status, resp, changed, resumed,
                 missing, attempted, failed, enterSaw, rc, touched, stuck>>

\* retrieve_image: urlretrieve stores the image
retrieve_image_ok ==
  /\ pc = "sync"
  /\ idx <= Len(cache.data)
  /\ local[cache.data[idx]] = "absent"
  /\ local' = [local EXCEPT ![cache.data[idx]] = "complete"]
  /\ attempted' = attempted \cup {cache.data[idx]}
  /\ touched' = touched \cup {"image"}
  /\ idx' = idx + 1
  /\ UNCHANGED <<remote, cache, etag, latest, workdir, frames, tmp, video, pc,
                 force, exc, status, resp, changed, resumed, missing,
                 failed, enterSaw, rc, stuck>>

\* retrieve_image: urlretrieve raises, before it opened the target file or
\* partway through writing it; nothing catches the exception
retrieve_image_fail(partway) ==
  /\ pc = "sync"
  /\ idx <= Len(cache.data)
  /\ local[cache.data[idx]] = "absent"
  /\ local' = IF partway THEN [local EXCEPT ![cache.data[idx]] = "partial"]
                         ELSE local
  /\ attempted' = attempted \cup {cache.data[idx]}
  /\ failed' = failed \cup {cache.data[idx]}
  /\ touched' = IF partway THEN touched \cup {"image"} ELSE touched
  /\ Finish("Error")
  /\ UNCHANGED <<remote, cache, etag, latest, workdir, frames, tmp, video,
                 force, idx, exc, resp, changed, resumed, missing,
                 enterSaw, rc, stuck>>

\* retrieve_files: the loop over the manifest is over, True is returned
retrieve_files_done ==
  /\ pc = "sync"
  /\ idx > Len(cache.data)
  /\ IF Proceed(TRUE, force)
       THEN pc' = "thumb" /\ status' = status
       ELSE Finish("EX_OK")
  /\ UNCHANGED <<world, force, idx, exc, resp, changed, resumed,
                 missing, attempted, failed, enterSaw, rc, touched, stuck>>

\* mk_thumbnail: muf_files.pop() on an empty list raises IndexError
mk_thumbnail_empty ==
  /\ pc = "thumb"
  /\ glob(local) = {}
  /\ Finish("Error")
  /\ UNCHANGED <<world, force, idx, exc, resp, changed, resumed,
                 missing, attempted, failed, enterSaw, rc, touched, stuck>>

\* mk_thumbnail: src is the image with the largest st_ctime (change times are
\* not part of the state, so any image may be the one); a truncated image
\* makes Image.open / convert raise
mk_thumbnail(src) ==
  /\ pc = "thumb"
  /\ src \in glob(local)
  /\ IF local[src] = "partial"
       THEN Finish("Error") /\ UNCHANGED <<latest, touched>>
       ELSE /\ latest' = TRUE
            /\ touched' = touched \cup {"thumb"}
            /\ pc' = "cleanup"
            /\ status' = status
  /\ UNCHANGED <<remote, cache, etag, local, workdir, frames, tmp, video, force,
                 idx, exc, resp, changed, resumed, missing, attempted,
                 failed, enterSaw, rc, stuck>>

KeepsEverything(loc, current) == {}

\* cleanup: the files under the prefix whose name is not in the manifest
StaleFiles(loc, current) == {n \in glob(loc) : n \notin current}

\* cleanup: muf_file.open / json.load raises when the cache is absent or empty
cleanup_unreadable ==
  /\ pc = "cleanup"
  /\ cache.state # "ok"
  /\ Finish("Error")
  /\ UNCHANGED <<world, force, idx, exc, resp, changed, resumed,
                 missing, attempted, failed, enterSaw, rc, touched, stuck>>

\* cleanup: every stale file is unlinked; the unlinks of the files in
\* `undeletable` raise IOError, which is logged
cleanup(undeletable) ==
  /\ pc = "cleanup"
  /\ cache.state = "ok"
  /\ undeletable \subseteq StaleFiles(local, ManifestNames(cache.data))
  /\ LET gone == StaleFiles(local, ManifestNames(cache.data)) \ undeletable
     IN /\ stuck' = undeletable
        /\ local' = [n \in Names |-> IF n \in gone THEN "absent" ELSE local[n]]
        /\ touched' = IF gone # {} THEN touched \cup {"unlink"} ELSE touched
  /\ pc' = "enter"
  /\ UNCHANGED <<remote, cache, etag, latest, workdir, frames, tmp, video,
                 force, idx, exc, status, resp, changed, resumed,
                 missing, attempted, failed, enterSaw, rc>>

mkdir_exist_ok(w) == [ok |-> TRUE, dir |-> IF w = "absent" THEN "own" ELSE w]

\* pathlib.Path.mkdir(): FileExistsError when the directory exists
mkdir(w) ==
  IF w = "absent" THEN [ok |-> TRUE, dir |-> "own"]
                  ELSE [ok |-> FALSE, dir |-> w]

\* Workdir.__enter__: the FileExistsError is an IOError; run() logs it and
\* raises SystemExit(err)
WorkdirEnter ==
  /\ pc = "enter"
  /\ enterSaw' = IF workdir = "absent" THEN "fresh" ELSE "existing"
  /\ workdir' = mkdir(workdir).dir
  /\ IF mkdir(workdir).ok
       THEN /\ pc' = "select"
            /\ status' = status
            /\ touched' = touched \cup {"workdir"}
       ELSE Finish("SystemExit") /\ touched' = touched
  /\ UNCHANGED <<remote, cache, etag, local, latest, frames, tmp, video, force,
                 idx, exc, resp, changed, resumed, missing, attempted,
                 failed, rc, stuck>>

\* select_files returns len(file_list), the number of source images
select_files_result(file_list, written) == Len(file_list)

\* run(): `if select_files(config, workdir) > 1: gen_video(...)`
AfterSelect(n) == IF n > 1 THEN "gen" ELSE "exit"

\* select_files: no image under the prefix, 0 is returned
select_files_none ==
  /\ pc = "select"
  /\ glob(local) = {}
  /\ pc' = AfterSelect(0)
  /\ UNCHANGED <<world, force, idx, exc, status, resp, changed, resumed,
                 missing, attempted, failed, enterSaw, rc, touched, stuck>>

\* process_image: ImageFont.truetype is called outside the try block; its
\* OSError (font file not found) leaves select_files and the with block
select_files_font_error ==
  /\ pc = "select"
  /\ glob(local) # {}
  /\ exc' = TRUE
  /\ pc' = "exit"
  /\ UNCHANGED <<world, force, idx, status, resp, changed, resumed,
                 missing, attempted, failed, enterSaw, rc, touched, stuck>>

\* select_files: image count of the sorted list becomes frame <count>; the
\* images of `bad` (every truncated one among them) fail in process_image,
\* which logs a warning and writes no frame
select_files(bad) ==
  /\ pc = "select"
  /\ glob(local) # {}
  /\ bad \subseteq glob(local)
  /\ \A n \in glob(local) : local[n] = "partial" => n \in bad
  /\ LET file_list == sorted(glob(local))
         written == {i \in 0..(Len(file_list) - 1) : file_list[i + 1] \notin bad}
     IN /\ frames' = frames \cup written
        /\ pc' = AfterSelect(select_files_result(file_list, written))
        /\ touched' = IF written # {} THEN touched \cup {"frame"} ELSE touched
  /\ UNCHANGED <<remote, cache, etag, local, latest, workdir, tmp, video, force,
                 idx, exc, status, resp, changed, resumed, missing, attempted,
                 failed, enterSaw, rc, stuck>>

\* gen_video: shutil.which finds no ffmpeg, FileNotFoundError is raised
gen_video_no_ffmpeg ==
  /\ pc = "gen"
  /\ rc' = "missing"
  /\ exc' = TRUE
  /\ pc' = "exit"
  /\ UNCHANGED <<world, force, idx, status, resp, changed, resumed,
                 missing, attempted, failed, enterSaw, touched, stuck>>

\* gen_video: Popen starts ffmpeg, which writes tmp_file in the workdir
gen_video_popen ==
  /\ pc = "gen"
  /\ tmp' = [exists |-> TRUE, whole |-> FALSE]
  /\ touched' = touched \cup {"tmp"}
  /\ pc' = "wait"
  /\ UNCHANGED <<remote, cache, etag, local, latest, workdir, frames, video,
                 force, idx, exc, status, resp, changed, resumed,
                 missing, attempted, failed, enterSaw, rc, stuck>>

\* proc.wait() returns: ffmpeg exited with zero, the output complete (it needs
\* at least one input frame for that), or with another code
gen_video_wait(ok) ==
  /\ pc = "wait"
  /\ ok => frames # {}
  /\ rc' = IF ok THEN "zero" ELSE "nonzero"
  /\ tmp' = [tmp EXCEPT !.whole = ok]
  /\ pc' = "publish"
  /\ UNCHANGED <<remote, cache, etag, local, latest, workdir, frames, video,
                 force, idx, exc, status, resp, changed, resumed,
                 missing, attempted, failed, enterSaw, touched, stuck>>

PublishAlways(code) == TRUE

\* gen_video: `if proc.returncode != 0: ... return`
Publishable(code) == code = "zero"

\* gen_video: after a zero exit tmp_file.rename(video_file) replaces the
\* published file in one step, or raises OSError and leaves it alone
gen_video_finish(renamed) ==
  /\ pc = "publish"
  /\ IF ~Publishable(rc)
       THEN /\ renamed
            /\ UNCHANGED <<video, tmp, exc, touched>>
       ELSE IF renamed
         THEN /\ video' = [gen |-> "new", whole |-> tmp.whole]
              /\ tmp' = NoTmp
              /\ touched' = touched \cup {"video"}
              /\ exc' = exc
         ELSE /\ exc' = TRUE
              /\ UNCHANGED <<video, tmp, touched>>
  /\ pc' = "exit"
  /\ UNCHANGED <<remote, cache, etag, local, latest, workdir, frames, force,
                 idx, status, resp, changed, resumed, missing,
                 attempted, failed, enterSaw, rc, stuck>>

rmtree_on_success_only(w, e) == IF e THEN w ELSE "absent"

\* Workdir.__exit__: shutil.rmtree(self.workdir), whatever exc_type is
rmtree(w, e) == "absent"

\* the with block is left: __exit__ runs, then an IOError that left the block
\* is logged and becomes SystemExit(err); otherwise run() returns os.EX_OK
WorkdirExit ==
  /\ pc = "exit"
  /\ workdir' = rmtree(workdir, exc)
  /\ frames' = IF rmtree(workdir, exc) = "absent" THEN {} ELSE frames
  /\ tmp' = IF rmtree(workdir, exc) = "absent" THEN NoTmp ELSE tmp
  /\ Finish(IF exc THEN "SystemExit" ELSE "EX_OK")
  /\ UNCHANGED <<remote, cache, etag, local, latest, video, force, idx,
                 exc, resp, changed, resumed, missing, attempted, failed,
                 enterSaw, rc, touched, stuck>>

Next ==
  \/ \E f \in BOOLEAN, m \in Manifests : Start(f, m)
  \/ download_with_etag_304
  \/ \E hdr \in BOOLEAN : download_with_etag_200(hdr)
  \/ \E truncated \in BOOLEAN : download_with_etag_error(truncated)
  \/ retrieve_image_skip
  \/ retrieve_image_ok
  \/ \E partway \in BOOLEAN : retrieve_image_fail(partway)
  \/ retrieve_files_done
  \/ mk_thumbnail_empty
  \/ \E src \in Names : mk_thumbnail(src)
  \/ cleanup_unreadable
  \/ \E undeletable \in SUBSET Names : cleanup(undeletable)
  \/ WorkdirEnter
  \/ select_files_none
  \/ select_files_font_error
  \/ \E bad \in SUBSET Names : select_files(bad)
  \/ gen_video_no_ffmpeg
  \/ gen_video_popen
  \/ \E ok \in BOOLEAN : gen_video_wait(ok)
  \/ \E renamed \in BOOLEAN : gen_video_finish(renamed)
  \/ WorkdirExit

Spec == Init /\ [][Next]_vars

----------------------------------------------------------------------------
\* a run has terminated: it returned, or an exception ended it
Terminated == pc = "idle" /\ status # "none"

\* C1 (as stated): after any run that returned normally or ended with an
\* error raised while acquiring or using the scratch workspace, _workdir does
\* not exist, whatever the starting filesystem state was.
C1_WorkdirGoneAfterAnyRun ==
  (Terminated /\ status \in {"EX_OK", "SystemExit"}) => workdir = "absent"

\* C1 (amended): after any run that created _workdir itself (its mkdir
\* succeeded) has terminated, normally or with an error raised while using
\* the workspace, _workdir does not exist.
C1_WorkdirGoneAfterOwnRun ==
  (Terminated /\ enterSaw = "fresh") =>
    (workdir = "absent" /\ frames = {} /\ ~tmp.exists)

\* a run that created the workspace ended with an error raised inside the
\* with block, and the directory is gone
C1_Witness ==
  Terminated /\ enterSaw = "fresh" /\ status = "SystemExit" /\ workdir = "absent"

\* C2: a run that follows a run stopped by an image download failure, against
\* the unchanged remote manifest, and that ends normally has downloaded
\* exactly the manifest images that were missing when it started, so that
\* every manifest image is present.
C2_ResumeFetchesMissing ==
  (Terminated /\ resumed /\ status = "EX_OK") =>
    /\ attempted \ failed = missing
    /\ \A n \in ManifestNames(remote) : local[n] # "absent"

\* C3: a download failure on one manifest entry does not end the loop over the
\* manifest: when the run is over every missing entry was attempted and the
\* loop went past the last entry.
C3_FailureDoesNotAbort ==
  (pc = "idle" /\ failed # {}) =>
    (missing \subseteq attempted /\ idx > Len(cache.data))

\* the run fetched a new manifest M2 whose images were all present when it
\* started (the images present are those of an earlier manifest M1, and
\* M2's names are among them), and cleanup has just completed
C4_Reconciled == pc = "enter" /\ changed /\ missing = {}

\* C4 (as stated): then the local files under the prefix are exactly the
\* filenames of M2.
C4_LocalEqualsManifest ==
  C4_Reconciled => glob(local) = ManifestNames(cache.data)

\* C4 (amended): then no file named in M2 is missing, and the local files
\* under the prefix are the filenames of M2 and the stale files whose unlink
\* raised an IOError, nothing else.
C4_LocalEqualsManifestAndUndeletable ==
  C4_Reconciled =>
    /\ ManifestNames(cache.data) \subseteq glob(local)
    /\ glob(local) = ManifestNames(cache.data) \cup stuck
    /\ stuck \cap ManifestNames(cache.data) = {}

\* cleanup removed a stale image after a sync against a smaller manifest
C4_Witness ==
  /\ C4_Reconciled
  /\ "unlink" \in touched
  /\ stuck = {}
  /\ glob(local) # {}

\* C5: the published file changes only in the rename step of gen_video, after
\* ffmpeg exited with zero and from a completely written temporary file; it
\* is never a partially written file; and a run whose encoder is missing,
\* failed or was not started leaves it as it was.
C5_PublishedOnlyByRename ==
  /\ [](video.whole)
  /\ []((Terminated /\ rc # "zero") => "video" \notin touched)
  /\ [][(video' # video \/ ("video" \in touched' /\ "video" \notin touched)) =>
          /\ pc = "publish"
          /\ rc = "zero"
          /\ tmp.exists /\ tmp.whole
          /\ video' = [gen |-> "new", whole |-> TRUE]]_vars

\* an earlier run published a video; in a later run ffmpeg exited non-zero and
\* the published video is still there
C5_Witness ==
  Terminated /\ rc = "nonzero" /\ video.gen = "new" /\ "tmp" \in touched

\* C6: no file under an image's final name is a partial download.
C6_NoPartialImage == \A n \in Names : local[n] # "partial"

\* C7: on every success response download_with_etag writes the new manifest
\* to the cache, stores the new tag and returns True.
C7_SuccessReturnsChanged ==
  resp = "200" =>
    /\ changed
    /\ cache = [state |-> "ok", data |-> remote]
    /\ etag = <<remote>>

\* C8: ffmpeg is started only when at least two frames were written in the
\* workspace.
C8_EncoderNeedsTwoFrames ==
  (pc \in {"wait", "publish"} \/ tmp.exists) => Cardinality(frames) >= 2

\* C9: when _workdir exists at acquisition the run ends with an error status
\* right there: the directory is left as it was, no frame is written, ffmpeg
\* is not started and the published video is not replaced.
C9_ExistingWorkdirFailsRun ==
  enterSaw = "existing" =>
    /\ pc = "idle"
    /\ status = "SystemExit"
    /\ workdir = "stale"
    /\ frames = {}
    /\ ~tmp.exists
    /\ rc = "none"
    /\ touched \cap {"workdir", "frame", "tmp", "video"} = {}

\* a forced run got as far as acquisition and found the stale directory
C9_Witness ==
  enterSaw = "existing" /\ Terminated /\ force /\ "thumb" \in touched

\* C10: on 304 download_with_etag returns False and leaves the cache and the
\* tag file alone; a run without force then returns EX_OK having written,
\* created or removed nothing.
C10_NotModifiedMutatesNothing ==
  /\ [](resp = "304" =>
          /\ ~changed
          /\ touched \cap {"cache", "etag"} = {}
          /\ ~force => (pc = "idle" /\ status = "EX_OK" /\ touched = {}))
  /\ [][(pc = "fetch" /\ resp' = "304") =>
          /\ cache' = cache /\ etag' = etag
          /\ ~force => UNCHANGED <<local, latest, workdir, frames, tmp, video>>]_vars

\* a run without force got 304 while manifest images were missing locally
C10_Witness ==
  resp = "304" /\ ~force /\ Terminated /\ missing # {}
====
